---------------------------- MODULE Spec2Model ----------------------------
(***************************************************************************)
(* A model of the trade-simulation and metrics code of the stock-trading   *)
(* simulator: Simulator.execute_trade / calculate_metrics (simulator.py),  *)
(* Backtester.backtest / calculate_metrics (backtester.py),                *)
(* Portfolio.execute_trade (portfolio.py), analyze_win_rate and            *)
(* calculate_sharpe_ratio (utils.py).                                      *)
(*                                                                         *)
(* Numbers.  The code computes in IEEE doubles held in pandas columns.     *)
(* The model computes in exact rationals extended with the three special   *)
(* values a column can hold: a number is a record [n, d], d > 0 and        *)
(* gcd(n, d) = 1 for a finite value, d = 0 for NaN (n = 0), +inf (n = 1)   *)
(* and -inf (n = -1).  Rounding error of doubles is not modelled; NaN      *)
(* propagation, truncation (int()), floor division (//) and the NaN-aware  *)
(* comparisons are.                                                        *)
(***************************************************************************)
EXTENDS Integers, Sequences, FiniteSets, TLC

VARIABLES
    initial_balance,   \* constructor argument, kept by the object
    transaction_cost,  \* constructor argument, kept by the object
    pc,                \* which call has last returned
    df,                \* the Close column of the price frame of the last call
    signals,           \* the signal series of the last call
    results,           \* the frame returned by execute_trade / backtest
    error,             \* the exception the last call raised, or "none"
    metrics,           \* the dict returned by calculate_metrics
    portfolio,         \* the Portfolio object's balance, shares, position
    pf_pre,            \* the Portfolio's fields when its last call began
    pf_call,           \* the arguments of the last Portfolio.execute_trade
    pf_ret,            \* the dict the last Portfolio.execute_trade returned
    pf_log,            \* the (price, signal) arguments of all calls so far
    history            \* one entry per call on the Simulator / Backtester:
                       \* what the call was given and what it returned

vars == <<initial_balance, transaction_cost, pc, df, signals, results, error,
          metrics, portfolio, pf_pre, pf_call, pf_ret, pf_log, history>>

---------------------------------------------------------------------------
(* Bounds of the model and the input sets.                                 *)

MaxLen == 3

MaxCalls == 3

Prices == {90, 100, 103, 106, 110}

Signals == {-1, 0, 1}

\* (initial_balance, transaction_cost): the defaults, a balance that buys one
\* share, and a balance that only pays the fee.
Configs == { <<10000, 10>>, <<200, 100>>, <<100, 100>> }

TakeProfitPct == 5

StopLossPct == 2

SeqsUpTo(S, n) == UNION { [1..k -> S] : k \in 0..n }

---------------------------------------------------------------------------
(* Extended rational arithmetic.                                           *)

Abs(x) == IF x < 0 THEN -x ELSE x

Sgn(x) == IF x < 0 THEN -1 ELSE IF x > 0 THEN 1 ELSE 0

RECURSIVE GCD(_, _)
GCD(a, b) == IF b = 0 THEN a ELSE GCD(b, a % b)

NaN == [n |-> 0, d |-> 0]

Norm(n, d) ==
    LET Reduced(num, den, g) == [n |-> num \div g, d |-> den \div g]
        Positive(num, den) == Reduced(num, den, GCD(Abs(num), den))
    IN  IF d = 0 THEN [n |-> Sgn(n), d |-> 0]
        ELSE IF d < 0 THEN Positive(-n, -d)
        ELSE Positive(n, d)

R(i) == [n |-> i, d |-> 1]

IsNaN(a) == a.d = 0 /\ a.n = 0

IsFinite(a) == a.d > 0

RNeg(a) == [n |-> -a.n, d |-> a.d]

\* The sums and products divide by common factors before they multiply, so
\* that intermediate values stay small.
RAdd(a, b) ==
    LET Sum(g) == Norm(a.n * (b.d \div g) + b.n * (a.d \div g), (a.d \div g) * b.d)
    IN  IF a.d = 1 /\ b.d = 1 THEN R(a.n + b.n)
        ELSE IF IsNaN(a) \/ IsNaN(b) THEN NaN
        ELSE IF a.d = 0 /\ b.d = 0 THEN (IF a.n = b.n THEN a ELSE NaN)
        ELSE IF a.d = 0 THEN a
        ELSE IF b.d = 0 THEN b
        ELSE Sum(GCD(a.d, b.d))

RSub(a, b) == RAdd(a, RNeg(b))

RMul(a, b) ==
    LET Product(g1, g2) ==
            [n |-> (a.n \div g1) * (b.n \div g2), d |-> (a.d \div g2) * (b.d \div g1)]
    IN  IF a.d = 1 /\ b.d = 1 THEN R(a.n * b.n)
        ELSE IF a.d = 0 \/ b.d = 0 \/ a.n = 0 \/ b.n = 0
        THEN Norm(a.n * b.n, a.d * b.d)
        ELSE Product(GCD(Abs(a.n), b.d), GCD(Abs(b.n), a.d))

RRecip(a) == IF a.n < 0 THEN [n |-> -a.d, d |-> -a.n] ELSE [n |-> a.d, d |-> a.n]

RDiv(a, b) == RMul(a, RRecip(b))

RLt(a, b) ==
    LET Less(g) == a.n * (b.d \div g) < b.n * (a.d \div g)
    IN  /\ ~IsNaN(a)
        /\ ~IsNaN(b)
        /\ IF a.d = 1 /\ b.d = 1 THEN a.n < b.n
           ELSE IF a.d = 0 /\ b.d = 0 THEN a.n < b.n
           ELSE IF a.d = 0 \/ b.d = 0 THEN a.n * b.d < b.n * a.d
           ELSE Less(GCD(a.d, b.d))

REq(a, b) == ~IsNaN(a) /\ ~IsNaN(b) /\ a = b

RLe(a, b) == RLt(a, b) \/ REq(a, b)

RGt(a, b) == RLt(b, a)

RGe(a, b) == RLe(b, a)

RNe(a, b) == ~REq(a, b)

\* int(x) of a finite x: truncation toward zero
Trunc(a) == R(Sgn(a.n) * (Abs(a.n) \div a.d))

\* x // y of Python, y finite and non-zero
FloorDiv(a, b) ==
    LET q == RDiv(a, b) IN R(q.n \div q.d)

---------------------------------------------------------------------------
(* Column helpers shared by the frame-building code.                       *)

\* results["Close"] = df["Close"]: assignment aligns on the index of the
\* signal series; a row the price frame does not have is NaN, a row only
\* the price frame has is dropped.
CloseAt(closes, t) == IF t <= Len(closes) THEN R(closes[t]) ELSE NaN

\* The sequence f[1], ..., f[n], each element computed once.
RECURSIVE AsSeq(_, _)
AsSeq(f, n) == IF n = 0 THEN <<>> ELSE Append(AsSeq(f, n - 1), f[n])

\* Series.ffill(): a NaN takes the last value before it that is not NaN.
RECURSIVE Ffill(_)
Ffill(col) ==
    LET Fill(head, last) ==
            Append(head, IF IsNaN(last) THEN head[Len(head)] ELSE last)
    IN  IF Len(col) <= 1 THEN col
        ELSE Fill(Ffill(SubSeq(col, 1, Len(col) - 1)), col[Len(col)])

\* Series.pct_change().fillna(0): the NaN of the column are padded, then
\* r[t] = v[t] / v[t-1] - 1, and the NaN left (the first row) become 0.
PctChange(col) ==
    LET FillNa(r) == IF IsNaN(r) THEN R(0) ELSE r
        Change(v) ==
            AsSeq([t \in 1..Len(v) |->
                      FillNa(IF t = 1 THEN NaN
                             ELSE RSub(RDiv(v[t], v[t - 1]), R(1)))], Len(v))
    IN  Change(Ffill(col))

\* (1 + r).cumprod()
RECURSIVE CumProd1(_)
CumProd1(r) ==
    LET Times(head, last) == Append(head, RMul(head[Len(head)], RAdd(R(1), last)))
    IN  IF Len(r) = 0 THEN <<>>
        ELSE IF Len(r) = 1 THEN <<RAdd(R(1), r[1])>>
        ELSE Times(CumProd1(SubSeq(r, 1, Len(r) - 1)), r[Len(r)])

Column(rows, name) == AsSeq([t \in 1..Len(rows) |-> rows[t][name]], Len(rows))

---------------------------------------------------------------------------
(* Simulator.execute_trade                                                 *)

take_profit == Norm(TakeProfitPct, 100)

stop_loss == Norm(StopLossPct, 100)

\* The frame before the loop: one row per signal, every column preset.
\* Event is not a column: it records which branch of the loop body ran.
SimInitRows(closes, sigs, B) ==
    AsSeq([t \in 1..Len(sigs) |->
        [Signal |-> sigs[t], Close |-> CloseAt(closes, t), Shares |-> R(0),
         Balance |-> R(B), Transaction_Cost |-> R(0), Portfolio_Value |-> R(B),
         Position |-> 0, Buy_Price |-> NaN, Daily_Return |-> R(0),
         Cumulative_Returns |-> R(0), Event |-> "none"]], Len(sigs))

\* The buy branch at row t; int() of a NaN or of an infinity raises.
SimBuy(st, t, B, c) ==
    LET row == st.rows[t]
        q == RDiv(RSub(row.Balance, R(c)), row.Close)
        shares == Trunc(q)
    IN  IF ~IsFinite(q)
        THEN [st EXCEPT !.err = IF IsNaN(q) THEN "ValueError" ELSE "OverflowError"]
        ELSE [st EXCEPT
                !.rows[t] = [row EXCEPT
                    !.Shares = shares,
                    !.Transaction_Cost = R(c),
                    !.Balance = RSub(row.Balance, RAdd(RMul(shares, row.Close), R(c))),
                    !.Position = 1,
                    !.Buy_Price = row.Close,
                    !.Event = "buy"],
                !.buy_price = row.Close,
                !.position_open = TRUE]

ExitCondition(current_price, buy_price, tp, sl) ==
    LET price_change == RDiv(RSub(current_price, buy_price), buy_price)
    IN  RGe(price_change, tp) \/ RLe(price_change, RNeg(sl))

\* "Execute sell action" at row t.
SimSell(st, t, B, c) ==
    LET row == st.rows[t]
        current_price == row.Close
        previous == IF t = 1 THEN Len(st.rows) ELSE t - 1
        shares == st.rows[previous].Shares
        proceeds == RSub(RMul(shares, current_price), R(c))
    IN  IF ~IsFinite(proceeds)
        THEN [st EXCEPT !.err = IF IsNaN(proceeds) THEN "ValueError"
                                ELSE "OverflowError"]
        ELSE [st EXCEPT
                !.rows[t] = [row EXCEPT
                    !.Balance = RAdd(row.Balance, Trunc(proceeds)),
                    !.Transaction_Cost = R(c),
                    !.Shares = R(0),
                    !.Position = 0,
                    !.Event = "sell"],
                !.position_open = FALSE]

\* A slip: the open position is also closed by a Sell signal.
SimExitOnSellSignal(st, t, B, c) ==
    IF \/ st.rows[t].Signal = -1
       \/ ExitCondition(st.rows[t].Close, st.buy_price, take_profit, stop_loss)
    THEN SimSell(st, t, B, c)
    ELSE st

\* The branch taken while a position is open: "Evaluate exit conditions".
SimExit(st, t, B, c) ==
    IF ExitCondition(st.rows[t].Close, st.buy_price, take_profit, stop_loss)
    THEN SimSell(st, t, B, c)
    ELSE st

\* A slip: the cash of the previous row is not carried forward.
SimCarryForwardSharesOnly(st, t, B) ==
    IF t = 1 THEN st
    ELSE LET row == st.rows[t]
             prev == st.rows[t - 1]
         IN  [st EXCEPT !.rows[t] = [row EXCEPT
                 !.Shares = IF REq(row.Shares, R(0)) THEN prev.Shares ELSE row.Shares,
                 !.Position = prev.Position]]

\* "Carry forward values for non-trading days": runs on every row but the
\* first, whichever branch ran before it.
SimCarryForward(st, t, B) ==
    IF t = 1 THEN st
    ELSE LET row == st.rows[t]
             prev == st.rows[t - 1]
         IN  [st EXCEPT !.rows[t] = [row EXCEPT
                 !.Shares = IF REq(row.Shares, R(0)) THEN prev.Shares ELSE row.Shares,
                 !.Balance = IF REq(row.Balance, R(B)) THEN prev.Balance
                             ELSE row.Balance,
                 !.Position = prev.Position]]

\* One iteration of "for date in results.index".
SimLoopBody(st, t, B, c) ==
    LET Carry(traded) ==
            IF traded.err # "none" THEN traded ELSE SimCarryForward(traded, t, B)
    IN  Carry(IF st.rows[t].Signal = 1 /\ ~st.position_open THEN SimBuy(st, t, B, c)
              ELSE IF st.position_open THEN SimExit(st, t, B, c)
              ELSE st)

RECURSIVE SimLoop(_, _, _, _)
SimLoop(st, t, B, c) ==
    IF t > Len(st.rows) \/ st.err # "none" THEN st
    ELSE SimLoop(SimLoopBody(st, t, B, c), t + 1, B, c)

\* results["Portfolio_Value"] = results["Balance"] + results["Shares"] * results["Close"]
SimPortfolioValue(row) == RAdd(row.Balance, RMul(row.Shares, row.Close))

\* A slip: every row is valued at the last close of the frame.
SimFinishAtLastClose(rows) ==
    LET Attach(valued, daily, cum) ==
            AsSeq([t \in 1..Len(rows) |->
                      [valued[t] EXCEPT !.Daily_Return = daily[t],
                                        !.Cumulative_Returns = RSub(cum[t], R(1))]],
                  Len(rows))
        WithReturns(valued, daily) == Attach(valued, daily, CumProd1(daily))
        WithValue(valued) ==
            WithReturns(valued, PctChange(Column(valued, "Portfolio_Value")))
    IN  WithValue(AsSeq([t \in 1..Len(rows) |->
                            [rows[t] EXCEPT
                                !.Portfolio_Value =
                                    RAdd(rows[t].Balance,
                                         RMul(rows[t].Shares, rows[Len(rows)].Close))]],
                        Len(rows)))

\* The columns computed after the loop.
SimFinish(rows) ==
    LET Attach(valued, daily, cum) ==
            AsSeq([t \in 1..Len(rows) |->
                      [valued[t] EXCEPT !.Daily_Return = daily[t],
                                        !.Cumulative_Returns = RSub(cum[t], R(1))]],
                  Len(rows))
        WithReturns(valued, daily) == Attach(valued, daily, CumProd1(daily))
        WithValue(valued) ==
            WithReturns(valued, PctChange(Column(valued, "Portfolio_Value")))
    IN  WithValue(AsSeq([t \in 1..Len(rows) |->
                            [rows[t] EXCEPT
                                !.Portfolio_Value = SimPortfolioValue(rows[t])]],
                        Len(rows)))

\* The whole call: the frame it returns, or the exception it raises.
ExecuteTrade(closes, sigs, B, c) ==
    LET Return(st) ==
            IF st.err # "none" THEN [err |-> st.err, rows |-> <<>>]
            ELSE [err |-> "none", rows |-> SimFinish(st.rows)]
    IN  Return(SimLoop([rows |-> SimInitRows(closes, sigs, B),
                        position_open |-> FALSE, buy_price |-> R(0),
                        err |-> "none"], 1, B, c))

---------------------------------------------------------------------------
(* Simulator.calculate_metrics                                             *)

CountWhere(col, P(_)) == Cardinality({t \in 1..Len(col) : P(col[t])})

\* Series.min(): NaN are skipped; NaN when nothing is left.
RECURSIVE ColMin(_)
ColMin(col) ==
    LET Least(rest, last) ==
            IF IsNaN(last) THEN rest
            ELSE IF IsNaN(rest) \/ RLt(last, rest) THEN last ELSE rest
    IN  IF Len(col) = 0 THEN NaN
        ELSE Least(ColMin(SubSeq(col, 1, Len(col) - 1)), col[Len(col)])

\* Series.expanding().max(): the running maximum, NaN skipped.
RECURSIVE ExpandingMax(_)
ExpandingMax(col) ==
    LET Greatest(before, last) ==
            IF IsNaN(last) THEN before
            ELSE IF IsNaN(before) \/ RGt(last, before) THEN last ELSE before
        Extend(head, last) ==
            Append(head, Greatest(IF Len(head) = 0 THEN NaN ELSE head[Len(head)], last))
    IN  IF Len(col) = 0 THEN <<>>
        ELSE Extend(ExpandingMax(SubSeq(col, 1, Len(col) - 1)), col[Len(col)])

\* drawdowns.min() * 100 of a value column
MaxDrawdown(col) ==
    LET Drawdowns(rolling_max) ==
            AsSeq([t \in 1..Len(col) |->
                      RDiv(RSub(col[t], rolling_max[t]), rolling_max[t])], Len(col))
    IN  RMul(ColMin(Drawdowns(ExpandingMax(col))), R(100))

\* Whether "excess_returns.std() > 0": the sample standard deviation is NaN
\* below two rows and positive exactly when two values differ.
StdPositive(col) ==
    /\ Len(col) >= 2
    /\ \A t \in 1..Len(col) : IsFinite(col[t])
    /\ \E t \in 1..Len(col) : col[t] # col[1]

\* The win rate of Simulator.calculate_metrics: bars with a positive daily
\* return over bars with a non-zero daily return.
SimWinRate(daily_returns) ==
    LET winning_trades == CountWhere(daily_returns, LAMBDA r : RGt(r, R(0)))
        total_trades == CountWhere(daily_returns, LAMBDA r : RNe(r, R(0)))
    IN  IF total_trades > 0 THEN RMul(Norm(winning_trades, total_trades), R(100))
        ELSE R(0)

\* The dict returned, or the IndexError of .iloc[-1] on an empty frame.
\* sharpe_ratio is kept as what decides it: 0 unless the deviation is positive.
SimCalculateMetricsOf(rows, B) ==
    LET Dict(pv, daily_returns) ==
            [err |-> "none",
             total_return |-> RMul(RDiv(RSub(pv[Len(pv)], R(B)), R(B)), R(100)),
             sharpe_zero |-> ~StdPositive(daily_returns),
             max_drawdown |-> MaxDrawdown(pv),
             win_rate |-> SimWinRate(daily_returns)]
        Of(pv) == Dict(pv, PctChange(pv))
    IN  IF Len(rows) = 0 THEN [err |-> "IndexError"]
        ELSE Of(Column(rows, "Portfolio_Value"))

---------------------------------------------------------------------------
(* Backtester.backtest                                                     *)

\* Lines 47-48: the Shares column after the two masked assignments.
BtShares(row, B, c) ==
    IF row.Signal = 1 THEN RDiv(RSub(R(B), R(c)), row.Close)
    ELSE R(0)

\* Lines 52-53: the Balance column before the forward fill.  shifted is
\* results.shift(1)['Shares'] at the row: NaN at the first row.
BtBalance(row, shares, shifted, B, c) ==
    IF row.Signal = 1 THEN RSub(R(B), RAdd(RMul(shares, row.Close), R(c)))
    ELSE IF row.Signal = -1 THEN RAdd(R(B), RSub(RMul(shifted, row.Close), R(c)))
    ELSE R(B)

\* Lines 56, 59: buy minus sell, zeros replaced by the last non-zero value.
RECURSIVE BtPosition(_, _)
BtPosition(sigs, t) ==
    IF t = 0 THEN 0
    ELSE IF sigs[t] = 1 THEN 1
    ELSE IF sigs[t] = -1 THEN -1
    ELSE BtPosition(sigs, t - 1)

BtPortfolioValue(balance, shares, close) == RAdd(balance, RMul(shares, close))

Backtest(closes, sigs, B, c) ==
    LET n == Len(sigs)
        Frame(base, shares, balance, pv, returns, strategy_returns, cum) ==
            AsSeq([t \in 1..n |->
                [Signal |-> sigs[t], Close |-> base[t].Close,
                 Position |-> BtPosition(sigs, t),
                 Shares |-> shares[t],
                 Balance |-> balance[t],
                 Transaction_Cost |-> IF sigs[t] = 1 THEN R(c) ELSE R(0),
                 Portfolio_Value |-> pv[t],
                 Returns |-> returns[t],
                 Strategy_Returns |-> strategy_returns[t],
                 Cumulative_Returns |-> cum[t],
                 Strategy_Cumulative_Returns |-> RDiv(pv[t], R(B))]], n)
        WithReturns(base, shares, balance, pv, returns) ==
            Frame(base, shares, balance, pv, returns, PctChange(pv), CumProd1(returns))
        WithValue(base, shares, balance, pv) ==
            WithReturns(base, shares, balance, pv, PctChange(Column(base, "Close")))
        WithBalance(base, shares, balance) ==
            WithValue(base, shares, balance,
                      AsSeq([t \in 1..n |->
                                BtPortfolioValue(balance[t], shares[t], base[t].Close)],
                            n))
        WithShares(base, shares) ==
            WithBalance(base, shares,
                        Ffill(AsSeq([t \in 1..n |->
                                        BtBalance(base[t], shares[t],
                                                  IF t = 1 THEN NaN ELSE shares[t - 1],
                                                  B, c)], n)))
        WithClose(base) ==
            WithShares(base, AsSeq([t \in 1..n |-> BtShares(base[t], B, c)], n))
    IN  WithClose(AsSeq([t \in 1..n |->
                            [Signal |-> sigs[t], Close |-> CloseAt(closes, t)]], n))

---------------------------------------------------------------------------
(* Backtester.calculate_metrics and utils.analyze_win_rate                 *)

BtWinRate(rows) ==
    LET winning_trades ==
            CountWhere(Column(rows, "Strategy_Returns"), LAMBDA r : RGt(r, R(0)))
        total_trades ==
            Cardinality({t \in 1..Len(rows) : rows[t].Signal \in {1, -1}})
    IN  IF total_trades > 0 THEN RMul(Norm(winning_trades, total_trades), R(100))
        ELSE R(0)

\* Position.diff() != 0: the first row's difference is NaN, which is != 0.
AnalyzeWinRate(rows) ==
    LET winning_trades ==
            CountWhere(Column(rows, "Strategy_Returns"), LAMBDA r : RGt(r, R(0)))
        total_trades ==
            Cardinality({t \in 1..Len(rows) :
                            t = 1 \/ rows[t].Position # rows[t - 1].Position})
    IN  IF total_trades > 0 THEN RMul(Norm(winning_trades, total_trades), R(100))
        ELSE R(0)

\* utils.calculate_sharpe_ratio(returns): sqrt(252) * mean / std of the excess
\* returns, with no test of the deviation.  The deviation is NaN below two
\* rows or when a return is not finite, and 0 exactly when all returns are
\* equal; numpy divides by 0 without raising, giving an infinity of the sign
\* of the mean, or NaN for 0 / 0.  A quotient by a positive deviation is
\* kept as "finite".
CalculateSharpeRatio(returns) ==
    LET risk_free_rate == Norm(1, 100)
        excess_returns ==
            AsSeq([t \in 1..Len(returns) |->
                      RSub(returns[t], RDiv(risk_free_rate, R(252)))], Len(returns))
        Quotient(q) ==
            IF IsNaN(q) THEN "nan" ELSE IF q.n > 0 THEN "inf" ELSE "-inf"
        Of(excess) ==
            IF Len(excess) < 2 \/ \E t \in 1..Len(excess) : ~IsFinite(excess[t])
            THEN "nan"
            ELSE IF StdPositive(excess) THEN "finite"
            ELSE Quotient(RDiv(excess[1], R(0)))
    IN  Of(excess_returns)

BtCalculateMetricsOf(rows) ==
    LET Dict(scr, excess) ==
            [err |-> "none",
             total_return |-> RMul(RSub(scr[Len(scr)], R(1)), R(100)),
             sharpe_zero |-> ~StdPositive(excess),
             max_drawdown |-> MaxDrawdown(scr),
             win_rate |-> BtWinRate(rows)]
    IN  IF Len(rows) = 0 THEN [err |-> "IndexError"]
        ELSE Dict(Column(rows, "Strategy_Cumulative_Returns"),
                  Column(rows, "Strategy_Returns"))

---------------------------------------------------------------------------
(* Portfolio.execute_trade                                                 *)

\* A slip: the sell branch is not guarded by the position held.
PortfolioTradeUnguardedSell(p, price, signal, c) ==
    IF signal = 1 /\ p.position = 0
    THEN LET max_shares == FloorDiv(RSub(p.balance, R(c)), price)
         IN  IF RGt(max_shares, R(0))
             THEN [balance |-> RSub(p.balance, RAdd(RMul(max_shares, price), R(c))),
                   shares |-> max_shares,
                   position |-> 1]
             ELSE p
    ELSE IF signal = -1
    THEN [balance |-> RAdd(p.balance, RSub(RMul(p.shares, price), R(c))),
          shares |-> R(0),
          position |-> 0]
    ELSE p

\* A slip: the buy branch does not test that a share can be afforded.
PortfolioTradeZeroShareBuy(p, price, signal, c) ==
    IF signal = 1 /\ p.position = 0
    THEN LET max_shares == FloorDiv(RSub(p.balance, R(c)), price)
         IN  [balance |-> RSub(p.balance, RAdd(RMul(max_shares, price), R(c))),
              shares |-> max_shares,
              position |-> 1]
    ELSE IF signal = -1 /\ p.position = 1
    THEN IF RGt(p.shares, R(0))
         THEN [balance |-> RAdd(p.balance, RSub(RMul(p.shares, price), R(c))),
               shares |-> R(0),
               position |-> 0]
         ELSE p
    ELSE p

\* The fields after the call (balance, shares, position).
PortfolioTrade(p, price, signal, c) ==
    IF signal = 1 /\ p.position = 0
    THEN LET max_shares == FloorDiv(RSub(p.balance, R(c)), price)
         IN  IF RGt(max_shares, R(0))
             THEN [balance |-> RSub(p.balance, RAdd(RMul(max_shares, price), R(c))),
                   shares |-> max_shares,
                   position |-> 1]
             ELSE p
    ELSE IF signal = -1 /\ p.position = 1
    THEN IF RGt(p.shares, R(0))
         THEN [balance |-> RAdd(p.balance, RSub(RMul(p.shares, price), R(c))),
               shares |-> R(0),
               position |-> 0]
         ELSE p
    ELSE p

\* The dict the call returns.
PortfolioReturn(p, price) ==
    [balance |-> p.balance, shares |-> p.shares, position |-> p.position,
     total_value |-> RAdd(p.balance, RMul(p.shares, price))]

---------------------------------------------------------------------------
(* The state machine: objects are constructed with a configuration, then   *)
(* one of them is exercised.                                               *)

NoMetrics == [err |-> "unset"]

NewPortfolio(B) == [balance |-> R(B), shares |-> R(0), position |-> 0]

Init ==
    /\ \E cfg \in Configs :
          /\ initial_balance = cfg[1]
          /\ transaction_cost = cfg[2]
          /\ portfolio = NewPortfolio(cfg[1])
          /\ pf_pre = NewPortfolio(cfg[1])
          /\ pf_ret = PortfolioReturn(NewPortfolio(cfg[1]), R(0))
    /\ pc = "new"
    /\ df = <<>>
    /\ signals = <<>>
    /\ results = <<>>
    /\ error = "none"
    /\ metrics = NoMetrics
    /\ pf_call = [price |-> 0, signal |-> 0]
    /\ pf_log = <<>>
    /\ history = <<>>

\* The entry a call leaves in the history: the arguments and the object's
\* fields as the call found them, and what it returned.
Call(op, ret) ==
    [op |-> op, df |-> df, signals |-> signals, frame |-> results,
     initial_balance |-> initial_balance, transaction_cost |-> transaction_cost,
     ret |-> ret]

PortfolioVars == <<portfolio, pf_pre, pf_call, pf_ret, pf_log>>

\* A slip: the object keeps the cash of the last row as its balance.
SimExecuteTradeKeepsBalance ==
    /\ pc \in {"new", "sim"}
    /\ \E sigs \in IF pc = "new" THEN SeqsUpTo(Signals, MaxLen) ELSE {signals},
          closes \in IF pc = "new" THEN SeqsUpTo(Prices, MaxLen) ELSE {df} :
          \E out \in {ExecuteTrade(closes, sigs, initial_balance, transaction_cost)} :
              /\ df' = closes
              /\ signals' = sigs
              /\ results' = out.rows
              /\ error' = out.err
              /\ pc' = IF out.err # "none" THEN "sim_raised"
                        ELSE IF pc = "new" THEN "sim" ELSE "sim_again"
              /\ history' = Append(history,
                                   [Call("execute_trade", out) EXCEPT
                                        !.df = closes, !.signals = sigs])
              /\ initial_balance' =
                     IF Len(out.rows) = 0 THEN initial_balance
                     ELSE Trunc(out.rows[Len(out.rows)].Balance).n
    /\ UNCHANGED <<transaction_cost, metrics, PortfolioVars>>

\* Simulator.execute_trade(df, signals)
\* The first call takes any inputs; a second call is given the inputs of the
\* first as the first call left them.
SimExecuteTrade ==
    /\ pc \in {"new", "sim"}
    /\ \E sigs \in IF pc = "new" THEN SeqsUpTo(Signals, MaxLen) ELSE {signals},
          closes \in IF pc = "new" THEN SeqsUpTo(Prices, MaxLen) ELSE {df} :
          \E out \in {ExecuteTrade(closes, sigs, initial_balance, transaction_cost)} :
              /\ df' = closes
              /\ signals' = sigs
              /\ results' = out.rows
              /\ error' = out.err
              /\ pc' = IF out.err # "none" THEN "sim_raised"
                        ELSE IF pc = "new" THEN "sim" ELSE "sim_again"
              /\ history' = Append(history,
                                   [Call("execute_trade", out) EXCEPT
                                        !.df = closes, !.signals = sigs])
    /\ UNCHANGED <<initial_balance, transaction_cost, metrics, PortfolioVars>>

\* A slip: the running maximum is written back to the value column.
SimCalculateMetricsInPlace ==
    /\ pc \in {"sim", "sim_metrics"}
    /\ \E m \in {SimCalculateMetricsOf(results, initial_balance)} :
           /\ metrics' = m
           /\ error' = m.err
           /\ history' = Append(history, Call("calculate_metrics", m))
    /\ \E rolling_max \in {ExpandingMax(Column(results, "Portfolio_Value"))} :
           results' = AsSeq([t \in 1..Len(results) |->
                                [results[t] EXCEPT !.Portfolio_Value = rolling_max[t]]],
                            Len(results))
    /\ pc' = IF pc = "sim" THEN "sim_metrics" ELSE "sim_metrics_again"
    /\ UNCHANGED <<initial_balance, transaction_cost, df, signals, PortfolioVars>>

\* Simulator.calculate_metrics(results)
\* It may be called again on the frame the first call was given.
SimCalculateMetrics ==
    /\ pc \in {"sim", "sim_metrics"}
    /\ \E m \in {SimCalculateMetricsOf(results, initial_balance)} :
           /\ metrics' = m
           /\ error' = m.err
           /\ history' = Append(history, Call("calculate_metrics", m))
    /\ pc' = IF pc = "sim" THEN "sim_metrics" ELSE "sim_metrics_again"
    /\ UNCHANGED <<initial_balance, transaction_cost, df, signals, results,
                   PortfolioVars>>

\* Backtester.backtest(df, signals)
\* The first call takes any inputs; a second call is given the inputs of the
\* first as the first call left them.
BtBacktest ==
    /\ pc \in {"new", "bt"}
    /\ \E sigs \in IF pc = "new" THEN SeqsUpTo(Signals, MaxLen) ELSE {signals},
          closes \in IF pc = "new" THEN SeqsUpTo(Prices, MaxLen) ELSE {df} :
          \E out \in {Backtest(closes, sigs, initial_balance, transaction_cost)} :
              /\ df' = closes
              /\ signals' = sigs
              /\ results' = out
              /\ history' = Append(history,
                                   [Call("backtest", out) EXCEPT
                                        !.df = closes, !.signals = sigs])
    /\ pc' = IF pc = "new" THEN "bt" ELSE "bt_again"
    /\ UNCHANGED <<initial_balance, transaction_cost, error, metrics, PortfolioVars>>

\* Backtester.calculate_metrics(results)
\* It may be called again on the frame the first call was given.
BtCalculateMetrics ==
    /\ pc \in {"bt", "bt_metrics"}
    /\ \E m \in {BtCalculateMetricsOf(results)} :
           /\ metrics' = m
           /\ error' = m.err
           /\ history' = Append(history, Call("calculate_metrics", m))
    /\ pc' = IF pc = "bt" THEN "bt_metrics" ELSE "bt_metrics_again"
    /\ UNCHANGED <<initial_balance, transaction_cost, df, signals, results,
                   PortfolioVars>>

\* utils.analyze_win_rate(results)
UtilsAnalyzeWinRate ==
    /\ pc = "bt"
    /\ metrics' = [err |-> "none", win_rate |-> AnalyzeWinRate(results)]
    /\ pc' = "bt_win_rate"
    /\ UNCHANGED <<initial_balance, transaction_cost, df, signals, results, error,
                   PortfolioVars, history>>

\* utils.calculate_sharpe_ratio(results['Strategy_Returns'])
UtilsCalculateSharpeRatio ==
    /\ pc = "bt"
    /\ metrics' = [err |-> "none",
                   sharpe_ratio |->
                       CalculateSharpeRatio(Column(results, "Strategy_Returns"))]
    /\ pc' = "bt_sharpe"
    /\ UNCHANGED <<initial_balance, transaction_cost, df, signals, results, error,
                   PortfolioVars, history>>

\* Portfolio.execute_trade(price, signal)
PortfolioExecuteTrade ==
    /\ pc \in {"new", "pf"}
    /\ Len(pf_log) < MaxCalls
    /\ \E price \in Prices, signal \in Signals :
          \E after \in {PortfolioTrade(portfolio, R(price), signal, transaction_cost)} :
              /\ pf_pre' = portfolio
              /\ portfolio' = after
              /\ pf_call' = [price |-> price, signal |-> signal]
              /\ pf_ret' = PortfolioReturn(after, R(price))
              /\ pf_log' = Append(pf_log, <<price, signal>>)
    /\ pc' = "pf"
    /\ UNCHANGED <<initial_balance, transaction_cost, df, signals, results, error,
                   metrics, history>>

Next ==
    \/ SimExecuteTrade
    \/ SimCalculateMetrics
    \/ BtBacktest
    \/ BtCalculateMetrics
    \/ UtilsAnalyzeWinRate
    \/ UtilsCalculateSharpeRatio
    \/ PortfolioExecuteTrade

Spec == Init /\ [][Next]_vars

\* One run of the Simulator: execute_trade once, then calculate_metrics once.
SpecSim ==
    Init /\ [][\/ pc = "new" /\ SimExecuteTrade
               \/ pc = "sim" /\ SimCalculateMetrics]_vars

SpecBt ==
    Init /\ [][\/ BtBacktest
               \/ BtCalculateMetrics
               \/ UtilsAnalyzeWinRate
               \/ UtilsCalculateSharpeRatio]_vars

SpecPortfolio == Init /\ [][PortfolioExecuteTrade]_vars

---------------------------------------------------------------------------
(* Properties.                                                             *)

\* The price frame and the signal series have the same index.
Aligned == Len(df) = Len(signals)

Rows == 1..Len(results)

\* C1: every row of the trace of Simulator.execute_trade and of
\* Backtester.backtest has Portfolio_Value == Balance + Shares * Close, and
\* every dict of Portfolio.execute_trade has total_value == balance +
\* shares * price (stated for aligned inputs; == is the comparison of
\* doubles, which no NaN satisfies).
C1_PortfolioValueIdentity ==
    /\ (pc \in {"sim", "bt"} /\ Aligned) =>
          \A t \in Rows :
             REq(results[t].Portfolio_Value,
                 RAdd(results[t].Balance, RMul(results[t].Shares, results[t].Close)))
    /\ pc = "pf" =>
          REq(pf_ret.total_value,
              RAdd(pf_ret.balance, RMul(pf_ret.shares, R(pf_call.price))))

\* C2: in every row of the trace of Simulator.execute_trade, Shares > 0
\* exactly when Position is 1.
C2_SharesIffPosition ==
    (pc = "sim" /\ Aligned) =>
        \A t \in Rows : RGt(results[t].Shares, R(0)) <=> results[t].Position = 1

\* C3: after any sequence of Portfolio.execute_trade calls the balance is
\* never negative.
C3_CashNeverNegative ==
    pc = "pf" => RGe(portfolio.balance, R(0))

\* The exit threshold of C4 at close c for entry price E.
ThresholdMet(c, E) ==
    \/ RGe(RDiv(RSub(c, E), E), take_profit)
    \/ RLe(RDiv(RSub(c, E), E), RNeg(stop_loss))

\* C4: a position opened at row e (entry price Close[e]) is closed at the
\* first later row whose close meets the take-profit or stop-loss
\* threshold, and at no earlier row, whatever the signals are.
C4_ThresholdExit ==
    pc = "sim" =>
        \A e \in Rows : results[e].Event = "buy" =>
            \A t \in (e + 1)..Len(results) :
                (\A k \in (e + 1)..(t - 1) :
                    ~ThresholdMet(results[k].Close, results[e].Close))
                => (results[t].Event = "sell"
                      <=> ThresholdMet(results[t].Close, results[e].Close))

\* Scenario C: entry at 100, closes 100, 103, 106: no exit at 103, exit at 106.
C4_Witness ==
    /\ pc = "sim"
    /\ df = <<100, 103, 106>>
    /\ signals = <<1, -1, 0>>
    /\ results[1].Event = "buy"
    /\ results[2].Event = "none"
    /\ results[3].Event = "sell"

\* C5: in Portfolio.execute_trade a Sell while flat, a Buy while long and a
\* Hold leave balance, shares and position as they were.
C5_OppositeSignalNoOp ==
    (/\ pc = "pf"
     /\ \/ pf_call.signal = -1 /\ pf_pre.position = 0
        \/ pf_call.signal = 1 /\ pf_pre.position = 1
        \/ pf_call.signal = 0)
    => portfolio = pf_pre

\* A Buy while long: the second of two Buy calls, the first of which bought.
C5_Witness ==
    /\ pc = "pf"
    /\ Len(pf_log) = 2
    /\ pf_call.signal = 1
    /\ pf_pre.position = 1
    /\ RGt(pf_pre.shares, R(0))
    /\ portfolio = pf_pre

\* C6: scenario B (initial_balance 10000, transaction_cost 10, Buy, Hold,
\* Sell at 100, 110, 90): 99.9 shares bought, balance 0 after the buy and
\* 8981 after the sell, total return -10.19 percent.
C6_ScenarioB ==
    /\ (/\ pc = "pf" /\ initial_balance = 10000 /\ transaction_cost = 10
        /\ pf_log = <<<<100, 1>>>>)
       => /\ portfolio.shares = Norm(999, 10)
          /\ portfolio.balance = R(0)
    /\ (/\ pc = "pf" /\ initial_balance = 10000 /\ transaction_cost = 10
        /\ pf_log = <<<<100, 1>>, <<110, 0>>, <<90, -1>>>>)
       => /\ portfolio.balance = R(8981)
          /\ RMul(RDiv(RSub(pf_ret.total_value, R(10000)), R(10000)), R(100))
                = Norm(-1019, 100)

RECURSIVE SumCol(_)
SumCol(col) ==
    IF Len(col) = 0 THEN R(0)
    ELSE RAdd(SumCol(SubSeq(col, 1, Len(col) - 1)), col[Len(col)])

\* C7: scenario A for Backtester: with a constant close the final
\* Portfolio_Value is initial_balance minus the sum of Transaction_Cost, and
\* total_return is that loss as a percentage (stated for aligned inputs
\* that do not begin with a Sell).
C7_ScenarioA ==
    (/\ pc \in {"bt", "bt_metrics"}
     /\ Aligned
     /\ Len(signals) >= 1
     /\ signals[1] # -1
     /\ \A t \in 1..Len(df) : df[t] = df[1])
    => LET costs == SumCol(Column(results, "Transaction_Cost"))
       IN  /\ REq(results[Len(results)].Portfolio_Value,
                  RSub(R(initial_balance), costs))
           /\ pc = "bt_metrics" =>
                 REq(metrics.total_return,
                     RMul(RDiv(RNeg(costs), R(initial_balance)), R(100)))

Prefix(seq, t) == SubSeq(seq, 1, IF t < Len(seq) THEN t ELSE Len(seq))

TraceColumns(row) ==
    <<row.Shares, row.Balance, row.Position, row.Transaction_Cost,
      row.Portfolio_Value>>

\* C8: no look-ahead in Simulator.execute_trade: the returned trace without
\* its last row is the trace of the input without its last row.  Applied to
\* the shorter input in turn, rows 1..t of a trace are the trace of the
\* input cut after row t, so two inputs that agree up to row t have traces
\* that agree up to row t.
C8_NoLookAhead ==
    (pc = "sim" /\ Len(signals) > 0) =>
        \E cut \in {ExecuteTrade(Prefix(df, Len(signals) - 1),
                                 Prefix(signals, Len(signals) - 1),
                                 initial_balance, transaction_cost)} :
            /\ cut.err = "none"
            /\ Len(cut.rows) = Len(results) - 1
            /\ \A k \in 1..Len(cut.rows) :
                  TraceColumns(cut.rows[k]) = TraceColumns(results[k])

\* A three-row trace with an entry at the first row and an exit at the last:
\* the rows before the exit are those of the shorter inputs.
C8_Witness ==
    /\ pc = "sim"
    /\ Len(results) = 3
    /\ results[1].Event = "buy"
    /\ results[2].Event = "none"
    /\ results[3].Event = "sell"
    /\ results[3].Portfolio_Value # results[2].Portfolio_Value

\* C9: price and signal series of different lengths make execute_trade and
\* backtest fail with an AlignmentError and return no trace.
C9_AlignmentError ==
    (pc \in {"sim", "sim_raised", "bt"} /\ Len(df) # Len(signals))
    => (error = "AlignmentError" /\ results = <<>>)

\* The closed trades of a sequence of events: an entry and the exit after it.
ClosedTrades(ev) ==
    {tr \in (1..Len(ev)) \X (1..Len(ev)) :
        /\ tr[1] < tr[2]
        /\ ev[tr[1]] = "buy"
        /\ ev[tr[2]] = "sell"
        /\ \A k \in (tr[1] + 1)..(tr[2] - 1) : ev[k] = "none"}

\* The events of the signal-driven rule: a Buy while flat enters, a Sell
\* while long exits.
RECURSIVE SignalEvents(_)
SignalEvents(sigs) ==
    LET Open(ev) == \E e \in 1..Len(ev) :
                        ev[e] = "buy" /\ \A k \in (e + 1)..Len(ev) : ev[k] # "sell"
        Step(ev, sig) ==
            Append(ev, IF sig = 1 /\ ~Open(ev) THEN "buy"
                       ELSE IF sig = -1 /\ Open(ev) THEN "sell"
                       ELSE "none")
    IN  IF Len(sigs) = 0 THEN <<>>
        ELSE Step(SignalEvents(SubSeq(sigs, 1, Len(sigs) - 1)), sigs[Len(sigs)])

\* The percentage of the closed trades whose sale proceeds exceed their cost
\* basis; 0 when there is none.
PerTradeWinRate(rows, trades) ==
    LET wins == {tr \in trades :
                    RGt(RMul(rows[tr[1]].Shares, rows[tr[2]].Close),
                        RMul(rows[tr[1]].Shares, rows[tr[1]].Close))}
    IN  IF trades = {} THEN R(0)
        ELSE RMul(Norm(Cardinality(wins), Cardinality(trades)), R(100))

\* C10: win_rate is the percentage of closed trades whose proceeds exceed
\* their cost basis, and 0 when the trace has no closed trade (stated for
\* aligned inputs).
C10_WinRatePerTrade ==
    /\ (pc = "sim_metrics" /\ Aligned /\ metrics.err = "none") =>
          REq(metrics.win_rate,
              PerTradeWinRate(results, ClosedTrades(Column(results, "Event"))))
    /\ (pc \in {"bt_metrics", "bt_win_rate"} /\ Aligned /\ metrics.err = "none") =>
          REq(metrics.win_rate,
              PerTradeWinRate(results, ClosedTrades(SignalEvents(signals))))

\* The sample standard deviation of the column is 0: at least two rows, all
\* finite, all equal.
StdZero(col) ==
    /\ Len(col) >= 2
    /\ \A t \in 1..Len(col) : IsFinite(col[t]) /\ col[t] = col[1]

\* C11: whenever all daily excess returns of a trace are equal (their
\* standard deviation is 0), the Sharpe ratio returned is 0, by
\* Simulator.calculate_metrics, by Backtester.calculate_metrics and by
\* utils.calculate_sharpe_ratio.
C11_SharpeZeroWhenFlat ==
    /\ (pc = "sim_metrics" /\ metrics.err = "none"
            /\ StdZero(Column(results, "Daily_Return"))) => metrics.sharpe_zero
    /\ (pc = "bt_metrics" /\ metrics.err = "none"
            /\ StdZero(Column(results, "Strategy_Returns"))) => metrics.sharpe_zero
    /\ (pc = "bt_sharpe" /\ StdZero(Column(results, "Strategy_Returns"))) =>
            metrics.sharpe_ratio = "zero"

\* C12: for every trace of Simulator.execute_trade, the max_drawdown of
\* Simulator.calculate_metrics is <= 0, and it is 0 whenever the
\* Portfolio_Value column is non-decreasing (stated for aligned inputs and
\* for calls that return metrics).
C12_MaxDrawdownNonPositive ==
    (pc = "sim_metrics" /\ Aligned /\ metrics.err = "none") =>
        /\ RLe(metrics.max_drawdown, R(0))
        /\ (\A t \in 2..Len(results) :
                RLe(results[t - 1].Portfolio_Value, results[t].Portfolio_Value))
               => REq(metrics.max_drawdown, R(0))

\* C13: Simulator.calculate_metrics fails with an InsufficientDataError,
\* returning no metrics, when the trace has fewer than 2 rows.
C13_InsufficientDataError ==
    (pc = "sim_metrics" /\ Len(results) < 2) =>
        metrics.err = "InsufficientDataError"

\* The last call and the one before it.
LastCall == history[Len(history)]

CallBefore == history[Len(history) - 1]

C16_PortfolioSharesIffPosition ==
    pc = "pf" =>
        /\ RGt(portfolio.shares, R(0)) <=> portfolio.position = 1
        /\ RGt(pf_ret.shares, R(0)) <=> pf_ret.position = 1

\* A buy that affords no share, a buy of one share, then the sale.
C16_Witness ==
    /\ pc = "pf"
    /\ initial_balance = 200
    /\ pf_log = << <<110, 1>>, <<100, 1>>, <<90, -1>> >>
    /\ pf_pre.position = 1
    /\ pf_pre.shares = R(1)
    /\ portfolio.position = 0
    /\ portfolio.shares = R(0)

\* C17: at every row t where Simulator.execute_trade executes an entry, the
\* shares are computed from the cash held just before the row (Balance[t-1],
\* or initial_balance at the first row), truncated or exact, and Balance[t]
\* is that cash minus Shares[t] * Close[t] minus transaction_cost (stated
\* for aligned inputs).
C17_EntryUsesActualCash ==
    (pc = "sim" /\ Aligned) =>
        \A t \in Rows :
           results[t].Event = "buy" =>
              LET cash == IF t = 1 THEN R(initial_balance)
                          ELSE results[t - 1].Balance
                  affordable ==
                      RDiv(RSub(cash, R(transaction_cost)), results[t].Close)
              IN  /\ \/ REq(results[t].Shares, affordable)
                     \/ IsFinite(affordable)
                           /\ REq(results[t].Shares, Trunc(affordable))
                  /\ REq(results[t].Balance,
                         RSub(cash, RAdd(RMul(results[t].Shares, results[t].Close),
                                         R(transaction_cost))))

\* C18: at every row t where Simulator.execute_trade executes an exit,
\* Balance[t] == Balance[t-1] + Shares[t-1] * Close[t] - transaction_cost
\* and Transaction_Cost[t] == transaction_cost (stated for aligned inputs).
C18_ExitCreditsProceeds ==
    (pc = "sim" /\ Aligned) =>
        \A t \in Rows :
           results[t].Event = "sell" =>
              /\ REq(results[t].Balance,
                     RAdd(results[t - 1].Balance,
                          RSub(RMul(results[t - 1].Shares, results[t].Close),
                               R(transaction_cost))))
              /\ REq(results[t].Transaction_Cost, R(transaction_cost))

\* C19: after an exit at row t, the trace has Shares == 0 at row t and at
\* every following row before the next entry (stated for aligned inputs).
C19_FlatAfterExit ==
    (pc = "sim" /\ Aligned) =>
        \A t \in Rows :
           results[t].Event = "sell" =>
              \A k \in t..Len(results) :
                 (\A j \in (t + 1)..k : results[j].Event # "buy")
                    => REq(results[k].Shares, R(0))

\* C20: every row t after the first at which Simulator.execute_trade
\* executes neither an entry nor an exit has the Balance, Shares and
\* Position of row t-1 and Transaction_Cost 0.
C20_CarryForward ==
    pc = "sim" =>
        \A t \in Rows :
           (t > 1 /\ results[t].Event = "none") =>
              /\ REq(results[t].Balance, results[t - 1].Balance)
              /\ REq(results[t].Shares, results[t - 1].Shares)
              /\ results[t].Position = results[t - 1].Position
              /\ REq(results[t].Transaction_Cost, R(0))

\* A row without a trade follows an entry that bought shares and left a
\* cash other than the preset one.
C20_Witness ==
    /\ pc = "sim"
    /\ \E t \in Rows :
          /\ t > 1
          /\ results[t].Event = "none"
          /\ results[t - 1].Event = "buy"
          /\ RGt(results[t].Shares, R(0))
          /\ RNe(results[t].Balance, R(initial_balance))

\* A position is open when row t begins: an entry before it has no exit
\* after it.
OpenBefore(rows, t) ==
    \E e \in 1..(t - 1) :
       /\ rows[e].Event = "buy"
       /\ \A k \in (e + 1)..(t - 1) : rows[k].Event # "sell"

\* C21: in Simulator.execute_trade, a Buy signal while flat is a no-op when
\* the computed share count is <= 0 or the cash held is below
\* transaction_cost: no entry is executed, Transaction_Cost of the row is 0,
\* and Balance and Shares are those of the previous row (initial_balance and
\* 0 at the first row); stated for aligned inputs.
C21_UnaffordableBuyRejected ==
    (pc = "sim" /\ Aligned) =>
        \A t \in Rows :
           LET cash == IF t = 1 THEN R(initial_balance) ELSE results[t - 1].Balance
               held == IF t = 1 THEN R(0) ELSE results[t - 1].Shares
               shares == Trunc(RDiv(RSub(cash, R(transaction_cost)),
                                    results[t].Close))
           IN  (/\ results[t].Signal = 1
                /\ ~OpenBefore(results, t)
                /\ RLe(shares, R(0)) \/ RLt(cash, R(transaction_cost)))
               => /\ results[t].Event # "buy"
                  /\ REq(results[t].Transaction_Cost, R(0))
                  /\ REq(results[t].Balance, cash)
                  /\ REq(results[t].Shares, held)

\* C22: in the trace of Backtester.backtest, every row t after the first
\* with a Hold signal has Balance[t] == Balance[t-1] and Shares[t] ==
\* Shares[t-1] (stated for aligned inputs).
C22_BacktestHoldCarriesForward ==
    (pc = "bt" /\ Aligned) =>
        \A t \in Rows :
           (t > 1 /\ results[t].Signal = 0) =>
              /\ REq(results[t].Balance, results[t - 1].Balance)
              /\ REq(results[t].Shares, results[t - 1].Shares)

\* C23: in every row of the trace of Backtester.backtest, Position is 0 or
\* 1, never negative.
C23_BacktestPositionNotShort ==
    pc = "bt" => \A t \in Rows : results[t].Position \in {0, 1}

===========================================================================
